---- MODULE Spec2Model ----
(***************************************************************************)
(* Request-governance layer of Lol_SummonerELT:                            *)
(*   RateLimiter.wait_if_needed  and  retry_with_backoff                   *)
(*   (src/games_elt/utils/api_utils.py),                                   *)
(*   CacheManager (src/games_elt/utils/cache_manager.py) and the cached    *)
(*   lookups of RiotDataCollector (src/games_elt/riot_data_collector.py).  *)
(*                                                                         *)
(* Time is discrete.  The rate limiter's clock counts ticks, with          *)
(* TicksPerSecond ticks to the second; the retry wrapper's sleeps are      *)
(* measured in units of its own (one unit = the smallest initial_wait).    *)
(***************************************************************************)
EXTENDS Integers, Sequences, FiniteSets

VARIABLES
    \* ---- RateLimiter (api_utils.py:12-37) ----
    now,                  \* time.time(), in ticks
    requests_per_second,  \* self.requests_per_second (the budget B)
    request_count,        \* self.request_count
    window_start,         \* self.window_start
    last_request_time,    \* self.last_request_time
    current_time,         \* local of wait_if_needed
    rl_wait_time,         \* local wait_time of wait_if_needed
    rl_pc,                \* "idle" | "sleeping" (inside time.sleep, line 32)
    calls,                \* history: one record per returned call
    \* ---- retry_with_backoff.wrapper (api_utils.py:39-62) ----
    max_retries,          \* decorator parameter
    initial_wait,         \* decorator parameter
    attempt,              \* loop variable of "for attempt in range(max_retries)"
    rb_wait_time,         \* local wait_time of wrapper
    rb_pc,                \* "idle" | "loop" | "sleeping" | "returned" | "raised"
    outcomes,             \* history: outcome of each invocation of func
    backoffs,             \* history: duration of each time.sleep of the wrapper
    reached,              \* what reached the caller of the wrapper
    \* ---- CacheManager (cache_manager.py:10-139) ----
    ttl,                  \* self.ttl, in ticks
    memory_cache,         \* self.memory_cache: key -> entry
    files,                \* the file system: path -> content
    keys,                 \* the keys the callers use
    faulty,               \* whether file operations may fail
    written,              \* history: per key, the last set on this instance not yet cleared
    last,                 \* history: the last cache operation and the state before it
    \* ---- cleanup_expired run step by step beside another caller ----
    cu_pc,                \* "idle" | "evict" | "files" | "read" | "raised"
    cu_time,              \* local current_time of cleanup_expired
    expired_keys,         \* local expired_keys, what is left of it
    cu_files,             \* files of the glob still to be visited
    cu_file,              \* the file just read, and what was read
    \* ---- RiotDataCollector (riot_data_collector.py:16-153) ----
    col_pc,               \* "idle" | "attempt" | "get" | "backoff"
    cache_key,            \* local cache_key of the lookup in progress
    col_base,             \* the counters and the time at the start of that lookup
    http_gets,            \* history: number of calls of requests.get
    lookups,              \* history: one record per finished lookup
    \* ---- WebhookManager (webhook_manager.py:24-98) ----
    webhooks,             \* self.webhooks
    notified              \* history: the last call of notify since the
                          \* webhooks were last changed, and its POSTs

rlVars == <<now, requests_per_second, request_count, window_start,
            last_request_time, current_time, rl_wait_time, rl_pc, calls>>
rbVars == <<max_retries, initial_wait, attempt, rb_wait_time, rb_pc,
            outcomes, backoffs, reached>>
cuVars == <<cu_pc, cu_time, expired_keys, cu_files, cu_file>>
cVars == <<ttl, memory_cache, files, keys, faulty, written, last, cuVars>>
colVars == <<col_pc, cache_key, col_base, http_gets, lookups>>
whVars == <<webhooks, notified>>
vars == <<rlVars, rbVars, cVars, colVars, whVars>>

----------------------------------------------------------------------------
\* Bounds of the model

TicksPerSecond == 3   \* clock resolution
MaxTime == 7          \* last tick at which a call may start
MaxCalls == 6         \* calls of wait_if_needed per behaviour
MaxBudget == 2        \* budgets 1..MaxBudget
MaxOversleep == 1     \* ticks time.sleep may overrun the requested duration
MaxRetries == 3       \* max_retries in 0..MaxRetries
MaxInitialWait == 2   \* initial_wait in 1..MaxInitialWait
CacheMaxTime == 4     \* last tick of the cache's clock
MaxTTL == 2           \* ttl in 1..MaxTTL ticks
MaxLookups == 3       \* lookups of a collector per behaviour
MaxWebhooks == 2      \* registered webhooks

\* "1" in lines 23 and 29: the window length of one second, in ticks
Second == TicksPerSecond

Max(a, b) == IF a >= b THEN a ELSE b

----------------------------------------------------------------------------
\* CacheManager: data

\* keys that name a file of the cache directory, and one that does not
SafeKeys == {"k1", "k2"}
AllKeys == SafeKeys \cup {"../k3"}

\* JSON payloads callers store
Values == {"v1", "v2"}

\* "key not in self.memory_cache", and an entry {"timestamp": ts, "value": v}
NoEntry == [present |-> FALSE, timestamp |-> 0, value |-> "None"]
Entry(ts, v) == [present |-> TRUE, timestamp |-> ts, value |-> v]

\* a file that does not exist, and one whose content is not a JSON document
NoFile == [kind |-> "absent", timestamp |-> 0, value |-> "None"]
Corrupt == [kind |-> "corrupt", timestamp |-> 0, value |-> "None"]

\* mutant: every key is taken for a plain file name of the cache directory
CacheFile_Flat(k) ==
    [dir |-> "cache_dir", stem |-> IF k = "../k3" THEN "k3" ELSE k]

\* _get_cache_file, lines 26-28: self.cache_dir / f"{key}.json"; the file is
\* <dir>/<stem>.json, and ".." leads to the parent of the cache directory
CacheFile(k) ==
    IF k = "../k3" THEN [dir |-> "parent", stem |-> "k3"]
                   ELSE [dir |-> "cache_dir", stem |-> k]

Paths == {CacheFile(k) : k \in AllKeys} \cup {CacheFile_Flat(k) : k \in AllKeys}

\* self.cache_dir.glob("*.json"), lines 101 and 131
Glob(fs) == {p \in Paths : p.dir = "cache_dir" /\ fs[p].kind # "absent"}

\* history record: no cache operation yet
NoOp == [op |-> "none", key |-> "None", value |-> "None", ret |-> "None",
         at |-> 0, failed |-> FALSE,
         memory |-> [k \in AllKeys |-> NoEntry],
         files |-> [p \in Paths |-> NoFile]]

\* cleanup_expired is not running
NoRead == [path |-> [dir |-> "none", stem |-> "none"], ok |-> FALSE, data |-> NoEntry]
CleanupIdle ==
    /\ cu_pc = "idle"
    /\ cu_time = 0
    /\ expired_keys = {}
    /\ cu_files = {}
    /\ cu_file = NoRead

\* WebhookManager: data

\* WebhookEventType, lines 11-16 (two of the five members)
EventTypes == {"game_end", "error"}
\* WebhookConfig, lines 18-22: secret None, empty or set; events None, an
\* empty list or a list of event types
Urls == {"u1", "u2"}
Secrets == {"None", "", "s1"}
EventLists == {[given |-> FALSE, list |-> {}], [given |-> TRUE, list |-> {}],
               [given |-> TRUE, list |-> {"game_end"}]}
Configs ==
    [url : Urls, secret : Secrets \ {""}, events : EventLists]
    \cup [url : {"u1"}, secret : {""}, events : {[given |-> FALSE, list |-> {}]}]
\* the data of an event
EventData == {"d1"}
\* requests.post: a 2xx response, another status, or an exception
PostResults == {"ok", "status", "throws"}

\* no call of notify yet
NoNotify == [called |-> FALSE, event |-> "None", data |-> "None",
             posts |-> <<>>, raised |-> FALSE]

\* __init__, lines 25-26
WebhookStart ==
    /\ webhooks = <<>>
    /\ notified = NoNotify

\* no lookup of a RiotDataCollector in progress, none made
NoLookup == [gets |-> 0, grants |-> 0, at |-> 0]
CollectorUnused ==
    /\ col_pc = "idle"
    /\ cache_key = "None"
    /\ col_base = NoLookup
    /\ http_gets = 0
    /\ lookups = <<>>

\* the CacheManager is not in use
CacheUnused ==
    /\ ttl = 1
    /\ memory_cache = [k \in AllKeys |-> NoEntry]
    /\ files = [p \in Paths |-> NoFile]
    /\ keys = {}
    /\ faulty = FALSE
    /\ written = [k \in AllKeys |-> NoEntry]
    /\ last = NoOp
    /\ CleanupIdle

----------------------------------------------------------------------------
\* RateLimiter

\* mutant: the window is reset one tick early
WindowElapsed_Early(t, ws) == t - ws >= Second - 1

\* line 23: if current_time - self.window_start >= 1
WindowElapsed(t, ws) == t - ws >= Second

\* mutant: the budget counts as used up one grant early
BudgetExhausted_Early(c) == c >= requests_per_second - 1

\* line 28: if self.request_count >= self.requests_per_second
BudgetExhausted(c) == c >= requests_per_second

\* mutant: the wait falls one tick short of the end of the window
WaitTime_Short(t, ws) == Second - 1 - (t - ws)

\* mutant: the elapsed part of the window is added instead of subtracted
WaitTime_Sign(t, ws) == Second + (t - ws)

\* line 29: wait_time = 1 - (current_time - self.window_start)
WaitTime(t, ws) == Second - (t - ws)

\* mutant: request_count is not reset after the sleep
CountAfterSleep_Kept(c) == c

\* line 34: self.request_count = 0 after time.sleep has returned
CountAfterSleep(c) == 0

\* __init__, lines 13-17, for every budget >= 1; the retry wrapper is not in use
RLInit ==
    /\ now = 0
    /\ requests_per_second \in 1..MaxBudget
    /\ request_count = 0
    /\ window_start = 0
    /\ last_request_time = 0
    /\ current_time = 0
    /\ rl_wait_time = 0
    /\ rl_pc = "idle"
    /\ calls = <<>>

RBUnused ==
    /\ max_retries = 0
    /\ initial_wait = 1
    /\ attempt = 0
    /\ rb_wait_time = 0
    /\ rb_pc = "idle"
    /\ outcomes = <<>>
    /\ backoffs = <<>>
    /\ reached = [kind |-> "nothing", val |-> "None"]

\* The single caller does something else between two calls: time passes.
Tick ==
    /\ rl_pc = "idle"
    /\ now < MaxTime
    /\ now' = now + 1
    /\ UNCHANGED <<requests_per_second, request_count, window_start,
                   last_request_time, current_time, rl_wait_time, rl_pc, calls>>
    /\ UNCHANGED rbVars
    /\ UNCHANGED cVars
    /\ UNCHANGED colVars
    /\ UNCHANGED whVars

\* wait_if_needed, lines 19-37, up to its return or to its time.sleep
WaitIfNeeded ==
    /\ rl_pc = "idle"
    /\ Len(calls) < MaxCalls
    /\ LET t  == now                                                \* line 20
           ws == IF WindowElapsed(t, window_start) THEN t ELSE window_start
           c  == IF WindowElapsed(t, window_start) THEN 0 ELSE request_count
           wt == WaitTime(t, ws)
       IN  /\ current_time' = t
           /\ IF BudgetExhausted(c) /\ wt > 0
              THEN \* lines 28-32: suspend
                   /\ rl_wait_time' = wt
                   /\ rl_pc' = "sleeping"
                   /\ window_start' = ws
                   /\ request_count' = c
                   /\ UNCHANGED <<last_request_time, calls>>
              ELSE \* lines 36-37: grant and return
                   /\ rl_wait_time' = IF BudgetExhausted(c) THEN wt ELSE rl_wait_time
                   /\ rl_pc' = "idle"
                   /\ window_start' = ws
                   /\ request_count' = c + 1
                   /\ last_request_time' = t
                   /\ calls' = Append(calls,
                                 [start |-> t, ret |-> t, win |-> ws,
                                  count |-> c + 1, sleeps |-> 0, slept |-> 0])
    /\ UNCHANGED <<now, requests_per_second>>
    /\ UNCHANGED rbVars
    /\ UNCHANGED cVars
    /\ UNCHANGED colVars
    /\ UNCHANGED whVars

\* time.sleep(wait_time) returns, lines 32-37: at least wait_time has passed
WakeUp ==
    /\ rl_pc = "sleeping"
    /\ \E over \in 0..MaxOversleep :
         /\ now' = now + rl_wait_time + over
         /\ window_start' = now'                                    \* line 33
         /\ request_count' = CountAfterSleep(request_count) + 1     \* lines 34, 36
         /\ last_request_time' = current_time                       \* line 37
         /\ calls' = Append(calls,
                       [start |-> current_time, ret |-> now', win |-> now',
                        count |-> CountAfterSleep(request_count) + 1,
                        sleeps |-> 1, slept |-> rl_wait_time])
    /\ rl_pc' = "idle"
    /\ UNCHANGED <<requests_per_second, current_time, rl_wait_time>>
    /\ UNCHANGED rbVars
    /\ UNCHANGED cVars
    /\ UNCHANGED colVars
    /\ UNCHANGED whVars

RLNext == Tick \/ WaitIfNeeded \/ WakeUp

RateLimiterInit ==
    RLInit /\ RBUnused /\ CacheUnused /\ CollectorUnused /\ WebhookStart

\* One RateLimiter used by a single caller at arbitrary non-decreasing times
RateLimiterSpec == RateLimiterInit /\ [][RLNext]_vars

\* time.sleep always returns
RateLimiterFairSpec == RateLimiterSpec /\ WF_vars(WakeUp)

----------------------------------------------------------------------------
\* retry_with_backoff

\* what one invocation of the decorated function can do: return a value or
\* raise an exception
Results == {"r1", "r2"}
Errors == {"e1", "e2", "e3"}
Outcomes == [ok : {TRUE}, val : Results] \cup [ok : {FALSE}, val : Errors]

Nothing == [kind |-> "nothing", val |-> "None"]

\* mutant: the loop runs one iteration short
InRange_Short(a) == a < max_retries - 1

\* line 44: for attempt in range(max_retries)
InRange(a) == a < max_retries

\* mutant: the last attempt is never recognised
LastAttempt_OffByOne(a) == a = max_retries

\* line 48: if attempt == max_retries - 1
LastAttempt(a) == a = max_retries - 1

\* mutant: the wait is not doubled
NextWait_Constant(w) == w

\* line 57: wait_time *= 2
NextWait(w) == w * 2

\* mutant: the result of func is dropped
ReturnValue_Dropped(v) == "None"

\* line 46: return func(*args, **kwargs)
ReturnValue(v) == v

\* mutant: the first exception caught is the one raised
Reraise_First(e, earlier) == IF earlier = <<>> THEN e ELSE earlier[1].val

\* line 49: raise, with e the exception caught from this attempt and earlier
\* the outcomes of the attempts before it
Reraise(e, earlier) == e

\* the decorator applied with any max_retries >= 0 and initial_wait > 0
RBInit ==
    /\ max_retries \in 0..MaxRetries
    /\ initial_wait \in 1..MaxInitialWait
    /\ attempt = 0
    /\ rb_wait_time = 0
    /\ rb_pc = "idle"
    /\ outcomes = <<>>
    /\ backoffs = <<>>
    /\ reached = Nothing

RLUnused ==
    /\ now = 0
    /\ requests_per_second = 1
    /\ request_count = 0
    /\ window_start = 0
    /\ last_request_time = 0
    /\ current_time = 0
    /\ rl_wait_time = 0
    /\ rl_pc = "idle"
    /\ calls = <<>>

\* wrapper is called, lines 41-42
CallWrapper ==
    /\ rb_pc = "idle"
    /\ rb_wait_time' = initial_wait
    /\ attempt' = 0
    /\ rb_pc' = "loop"
    /\ UNCHANGED <<max_retries, initial_wait, outcomes, backoffs, reached>>
    /\ UNCHANGED rlVars
    /\ UNCHANGED cVars
    /\ UNCHANGED colVars
    /\ UNCHANGED whVars

\* one iteration of the loop up to its return, raise or time.sleep, lines 44-56
Attempt ==
    /\ rb_pc = "loop"
    /\ InRange(attempt)
    /\ \E o \in Outcomes :
         /\ outcomes' = Append(outcomes, o)
         /\ IF o.ok
            THEN /\ reached' = [kind |-> "return", val |-> ReturnValue(o.val)]
                 /\ rb_pc' = "returned"
            ELSE IF LastAttempt(attempt)
            THEN /\ reached' = [kind |-> "raise", val |-> Reraise(o.val, outcomes)]
                 /\ rb_pc' = "raised"
            ELSE /\ rb_pc' = "sleeping"
                 /\ UNCHANGED reached
    /\ UNCHANGED <<max_retries, initial_wait, attempt, rb_wait_time, backoffs>>
    /\ UNCHANGED rlVars
    /\ UNCHANGED cVars
    /\ UNCHANGED colVars
    /\ UNCHANGED whVars

\* time.sleep(wait_time) returns and the loop goes on, lines 56-57 and 44
Backoff ==
    /\ rb_pc = "sleeping"
    /\ backoffs' = Append(backoffs, rb_wait_time)
    /\ rb_wait_time' = NextWait(rb_wait_time)
    /\ attempt' = attempt + 1
    /\ rb_pc' = "loop"
    /\ UNCHANGED <<max_retries, initial_wait, outcomes, reached>>
    /\ UNCHANGED rlVars
    /\ UNCHANGED cVars
    /\ UNCHANGED colVars
    /\ UNCHANGED whVars

\* the loop is exhausted, line 59: return None
FallThrough ==
    /\ rb_pc = "loop"
    /\ ~InRange(attempt)
    /\ reached' = [kind |-> "return", val |-> "None"]
    /\ rb_pc' = "returned"
    /\ UNCHANGED <<max_retries, initial_wait, attempt, rb_wait_time,
                   outcomes, backoffs>>
    /\ UNCHANGED rlVars
    /\ UNCHANGED cVars
    /\ UNCHANGED colVars
    /\ UNCHANGED whVars

RBNext == CallWrapper \/ Attempt \/ Backoff \/ FallThrough

RetryInit ==
    RBInit /\ RLUnused /\ CacheUnused /\ CollectorUnused /\ WebhookStart

\* One call of a function decorated with retry_with_backoff
RetrySpec == RetryInit /\ [][RBNext]_vars

----------------------------------------------------------------------------
\* Properties of the RateLimiter

B == requests_per_second
Ret(i) == calls[i].ret
Called == 1..Len(calls)

\* the grants (returns of wait_if_needed) in the interval [s, s + 1 second)
GrantsIn(s) == Cardinality({i \in Called : s <= Ret(i) /\ Ret(i) < s + Second})

\* C1 as claimed: every interval of one second, starting at any instant,
\* contains at most B grants.
C1_RollingWindowBound == \A s \in 0..now : GrantsIn(s) <= B

\* C1 amended: every interval of one second, starting at any instant, contains
\* at most 2*B grants; at most B grants are guaranteed only for the intervals
\* [window_start, window_start + 1 s) of the limiter's own (fixed) windows.
C1_FixedWindowBound ==
    /\ \A s \in 0..now : GrantsIn(s) <= 2 * B
    /\ \A i \in Called : GrantsIn(calls[i].win) <= B

\* C1 witness: a burst across a window boundary puts 2*B grants in one second
C1_BurstWitness == \E s \in 0..now : GrantsIn(s) = 2 * B /\ B = MaxBudget

\* C2 as claimed (P1): from the start of a first call, made any delay after
\* the construction or the last window reset, to the return of the N-th
\* consecutive call at least floor((N-1)/B) seconds pass.
C2_P1AnyDelay ==
    \A i \in Called : \A j \in i..Len(calls) :
        Ret(j) - calls[i].start >= ((j - i) \div B) * Second

\* C2 amended: at least floor((N-1)/B) seconds minus d pass, where d is the
\* time by which the first call follows the start of the window it is counted
\* in (0 <= d < 1 s); P1 holds as stated when the first call opens a window
\* (d = 0).
C2_P1FromWindowStart ==
    \A i \in Called : \A j \in i..Len(calls) :
        /\ calls[i].start - calls[i].win < Second
        /\ Ret(j) - calls[i].start >=
              ((j - i) \div B) * Second - Max(0, calls[i].start - calls[i].win)

\* C2 witness: B+1 or more calls, the first opening a window, that took
\* exactly floor((N-1)/B) >= 1 seconds
C2_TightWitness ==
    /\ Len(calls) > B
    /\ calls[1].start = calls[1].win
    /\ Ret(Len(calls)) - calls[1].start = ((Len(calls) - 1) \div B) * Second

\* the first j calls were made back to back on a freshly constructed limiter
BackToBack(j) ==
    /\ calls[1].start = 0
    /\ \A i \in 1..(j - 1) : calls[i + 1].start = Ret(i)

\* C3 as claimed (test_rate_limiter): N back-to-back calls on a fresh limiter
\* with budget B take at least N/B seconds.
C3_BackToBackTakesNOverB ==
    \A j \in Called : BackToBack(j) => (Ret(j) - calls[1].start) * B >= j * Second

\* C4: request_count stays within 0..B, is within 1..B whenever a call
\* returns, and counts exactly the grants of the current window, at most B.
C4_WindowCountInvariant ==
    /\ request_count \in 0..B
    /\ \A i \in Called : calls[i].count \in 1..B
    /\ request_count = Cardinality({i \in Called : calls[i].win = window_start})
    /\ Cardinality({i \in Called : Ret(i) >= window_start}) <= B

\* C4 witness: a window opened by a suspended call has been filled to B
C4_FullWindowWitness ==
    /\ B = MaxBudget
    /\ request_count = B
    /\ rl_pc = "idle"
    /\ \E i \in Called : calls[i].sleeps = 1 /\ calls[i].win = window_start

\* C5: a call only delays: whenever it suspends, the duration it asks for is
\* more than 0 and at most 1 second, it suspends at most once, and it returns.
C5_OnlyDelays ==
    /\ [](rl_pc = "sleeping" => rl_wait_time \in 1..Second)
    /\ [](\A i \in Called :
            /\ calls[i].sleeps \in {0, 1}
            /\ calls[i].sleeps = 1 => calls[i].slept \in 1..Second
            /\ calls[i].sleeps = 0 => calls[i].slept = 0 /\ Ret(i) = calls[i].start)
    /\ (rl_pc = "sleeping" ~> rl_pc = "idle")

\* C5 witness: a call that suspended for a whole second has returned
C5_SuspendedWitness ==
    \E i \in Called : /\ calls[i].sleeps = 1
                      /\ calls[i].slept = Second
                      /\ Ret(i) >= calls[i].start + Second

----------------------------------------------------------------------------
\* Properties of retry_with_backoff

RECURSIVE SumSeq(_)
SumSeq(q) == IF q = <<>> THEN 0 ELSE Head(q) + SumSeq(Tail(q))

RECURSIVE Pow2(_)
Pow2(n) == IF n <= 0 THEN 1 ELSE 2 * Pow2(n - 1)

Invocations == Len(outcomes)
AllFailed == \A i \in 1..Invocations : ~outcomes[i].ok
Finished == rb_pc \in {"returned", "raised"}

\* C6: with max_retries = n >= 1 the operation is never invoked more than n
\* times, and when it fails on every invocation the wrapper ends by raising
\* after exactly n invocations.
C6_RetryCountBound ==
    max_retries >= 1 =>
        /\ Invocations <= max_retries
        /\ rb_pc = "raised" => Invocations = max_retries /\ AllFailed
        /\ Finished /\ AllFailed => rb_pc = "raised" /\ reached.kind = "raise"

\* C6 witness: three failed invocations at max_retries = 3 and the error raised
C6_ExhaustedWitness ==
    /\ max_retries = 3
    /\ rb_pc = "raised"
    /\ Invocations = 3
    /\ AllFailed

C8_DelayAfterEveryAttempt ==
    max_retries >= 1 /\ rb_pc = "raised" =>
        /\ SumSeq(backoffs) >= initial_wait * (Pow2(max_retries) - 1)
        /\ Len(backoffs) = Invocations

\* C9: when all attempts fail, what reaches the caller is the error raised by
\* the final attempt, as raised.
C9_LastErrorPropagated ==
    max_retries >= 1 /\ Finished /\ AllFailed =>
        /\ Invocations = max_retries
        /\ reached = [kind |-> "raise", val |-> outcomes[Invocations].val]

\* C9 witness: the attempts raised different errors and the last one was raised
C9_DistinctErrorsWitness ==
    /\ rb_pc = "raised"
    /\ Invocations = 3
    /\ outcomes[1].val # outcomes[3].val
    /\ outcomes[2].val # outcomes[3].val
    /\ reached.val = outcomes[3].val

\* C10: when the operation first succeeds on attempt k <= max_retries, the
\* wrapper returns that attempt's result after exactly k invocations and k-1
\* suspensions, none of the earlier failures reaches the caller, and nothing
\* is attempted after the return.
C10_FirstSuccessReturned ==
    /\ [](max_retries >= 1 /\ Invocations >= 1 /\ outcomes[Invocations].ok =>
            /\ rb_pc = "returned"
            /\ reached = [kind |-> "return", val |-> outcomes[Invocations].val]
            /\ Invocations <= max_retries
            /\ Len(backoffs) = Invocations - 1
            /\ \A i \in 1..(Invocations - 1) : ~outcomes[i].ok)
    /\ [][rb_pc = "returned" => UNCHANGED rbVars]_vars

\* C10 witness: success on the third attempt after two absorbed failures
C10_ThirdAttemptWitness ==
    /\ rb_pc = "returned"
    /\ Invocations = 3
    /\ outcomes[3].ok
    /\ Len(backoffs) = 2
    /\ reached.kind = "return"

----------------------------------------------------------------------------
\* CacheManager: operations

\* mutant: an entry is still served one tick after its ttl
Fresh_Late(ts, t) == t - ts <= ttl + 1

\* lines 43 and 55: time.time() - data["timestamp"] <= self.ttl
Fresh(ts, t) == t - ts <= ttl

\* mutant: cleanup evicts the entries that have just reached ttl as well
Expired_Early(ts, t) == t - ts >= ttl

\* lines 125 and 136: current_time - data["timestamp"] > self.ttl
Expired(ts, t) == t - ts > ttl

\* mutant: the timestamp is not written to the file
JsonDump_NoTimestamp(data) == [kind |-> "json", timestamp |-> 0, value |-> data.value]

\* line 87: json.dump(data, f), the document written for the entry data
JsonDump(data) ==
    [kind |-> "json", timestamp |-> data.timestamp, value |-> data.value]

\* lines 53 and 134: json.load(f); raises on a file that holds no document
JsonLoad(f) ==
    IF f.kind = "json"
    THEN [ok |-> TRUE, data |-> Entry(f.timestamp, f.value)]
    ELSE [ok |-> FALSE, data |-> NoEntry]

\* mutant: the entry read from the file is stamped with the time of the read
Promote_Restamped(data, t) == Entry(t, data.value)

\* line 57: self.memory_cache[key] = data
Promote(data, t) == data

\* the outcomes a file operation can have
Fails == IF faulty THEN BOOLEAN ELSE {FALSE}
FailSets(S) == IF faulty THEN SUBSET S ELSE {{}}
WriteFails == IF faulty THEN {"no", "open", "dump"} ELSE {"no"}

\* mutant: a hit in memory stamps the entry with the time of the read
GetOutcome_Touch(k, t, mem, fs, readFails, unlinkFails) ==
    LET m    == mem[k]
        mem1 == [mem EXCEPT ![k] = NoEntry]
        p    == CacheFile(k)
        f    == fs[p]
        data == JsonLoad(f).data
    IN  IF m.present /\ Fresh(m.timestamp, t)
        THEN [ret |-> m.value, memory |-> [mem EXCEPT ![k] = Entry(t, m.value)],
              files |-> fs, failed |-> FALSE]
        ELSE IF f.kind = "absent"
        THEN [ret |-> "None", memory |-> mem1, files |-> fs, failed |-> FALSE]
        ELSE IF readFails \/ ~JsonLoad(f).ok
        THEN [ret |-> "None", memory |-> mem1, files |-> fs, failed |-> TRUE]
        ELSE IF Fresh(data.timestamp, t)
        THEN [ret |-> data.value,
              memory |-> [mem1 EXCEPT ![k] = Promote(data, t)], files |-> fs,
              failed |-> FALSE]
        ELSE IF unlinkFails
        THEN [ret |-> "None", memory |-> mem1, files |-> fs, failed |-> TRUE]
        ELSE [ret |-> "None", memory |-> mem1,
              files |-> [fs EXCEPT ![p] = NoFile], failed |-> FALSE]

\* mutant: get answers None for an expired entry and removes nothing
GetOutcome_NoEvict(k, t, mem, fs, readFails, unlinkFails) ==
    LET m    == mem[k]
        f    == fs[CacheFile(k)]
        data == JsonLoad(f).data
    IN  IF m.present /\ Fresh(m.timestamp, t)
        THEN [ret |-> m.value, memory |-> mem, files |-> fs, failed |-> FALSE]
        ELSE IF f.kind = "absent"
        THEN [ret |-> "None", memory |-> mem, files |-> fs, failed |-> FALSE]
        ELSE IF readFails \/ ~JsonLoad(f).ok
        THEN [ret |-> "None", memory |-> mem, files |-> fs, failed |-> TRUE]
        ELSE IF Fresh(data.timestamp, t)
        THEN [ret |-> data.value,
              memory |-> [mem EXCEPT ![k] = Promote(data, t)], files |-> fs,
              failed |-> FALSE]
        ELSE [ret |-> "None", memory |-> mem, files |-> fs,
              failed |-> unlinkFails]

\* get, lines 40-65, at time t on memory tier mem and file system fs;
\* readFails: open/json.load raises, unlinkFails: unlink raises
GetOutcome(k, t, mem, fs, readFails, unlinkFails) ==
    LET m    == mem[k]
        mem1 == [mem EXCEPT ![k] = NoEntry]                     \* line 46
        p    == CacheFile(k)                                    \* line 49
        f    == fs[p]
        data == JsonLoad(f).data
    IN  IF m.present /\ Fresh(m.timestamp, t)                   \* lines 41-44
        THEN [ret |-> m.value, memory |-> mem, files |-> fs, failed |-> FALSE]
        ELSE IF f.kind = "absent"                               \* line 50
        THEN [ret |-> "None", memory |-> mem1, files |-> fs, failed |-> FALSE]
        ELSE IF readFails \/ ~JsonLoad(f).ok                    \* lines 52-53, 62
        THEN [ret |-> "None", memory |-> mem1, files |-> fs, failed |-> TRUE]
        ELSE IF Fresh(data.timestamp, t)                        \* lines 55-58
        THEN [ret |-> data.value,
              memory |-> [mem1 EXCEPT ![k] = Promote(data, t)], files |-> fs,
              failed |-> FALSE]
        ELSE IF unlinkFails                                     \* lines 61-62
        THEN [ret |-> "None", memory |-> mem1, files |-> fs, failed |-> TRUE]
        ELSE [ret |-> "None", memory |-> mem1,
              files |-> [fs EXCEPT ![p] = NoFile], failed |-> FALSE]

\* mutant: the memory tier is written only once the file has been written
SetOutcome_FileFirst(k, v, t, mem, fs, fail) ==
    [memory |-> IF fail = "no" THEN [mem EXCEPT ![k] = Entry(t, v)] ELSE mem,
     files  |-> CASE fail = "no"   -> [fs EXCEPT ![CacheFile(k)] = JsonDump(Entry(t, v))]
                  [] fail = "open" -> fs
                  [] fail = "dump" -> [fs EXCEPT ![CacheFile(k)] = Corrupt]]

\* mutant: set writes the memory tier only
SetOutcome_MemoryOnly(k, v, t, mem, fs, fail) ==
    [memory |-> [mem EXCEPT ![k] = Entry(t, v)], files |-> fs]

\* set, lines 75-89; fail = "open": the file cannot be opened, "dump": the
\* file was opened (and truncated) and the write did not complete
SetOutcome(k, v, t, mem, fs, fail) ==
    LET data == Entry(t, v)                                     \* lines 75-78
        p    == CacheFile(k)
    IN  [memory |-> [mem EXCEPT ![k] = data],                   \* line 81
         files  |-> CASE fail = "no"   -> [fs EXCEPT ![p] = JsonDump(data)]
                      [] fail = "open" -> fs
                      [] fail = "dump" -> [fs EXCEPT ![p] = Corrupt]]

\* mutant: clear(key) forgets the memory entry
ClearOutcome_FileOnly(k, mem, fs, unlinkFails) ==
    [memory |-> mem, files |-> [fs EXCEPT ![CacheFile(k)] = NoFile]]

\* mutant: clear(key) forgets the file
ClearOutcome_MemoryOnly(k, mem, fs, unlinkFails) ==
    [memory |-> [mem EXCEPT ![k] = NoEntry], files |-> fs]

\* clear(key), lines 107-116
ClearOutcome(k, mem, fs, unlinkFails) ==
    LET p == CacheFile(k)
    IN  [memory |-> [mem EXCEPT ![k] = NoEntry],                \* lines 108-109
         files  |-> IF fs[p].kind # "absent" /\ ~unlinkFails    \* lines 112-114
                    THEN [fs EXCEPT ![p] = NoFile] ELSE fs]

\* clear(), lines 98-105; failing: the files whose unlink raises
ClearAllOutcome(mem, fs, failing) ==
    [memory |-> [k \in AllKeys |-> NoEntry],                    \* line 100
     files  |-> [p \in Paths |->
                   IF p \in Glob(fs) /\ p \notin failing THEN NoFile ELSE fs[p]]]

\* cleanup_expired, lines 120-139; failing: the files whose open, json.load
\* or unlink raises
CleanupOutcome(t, mem, fs, failing) ==
    [memory |-> [k \in AllKeys |->                              \* lines 123-128
                   IF mem[k].present /\ Expired(mem[k].timestamp, t)
                   THEN NoEntry ELSE mem[k]],
     files  |-> [p \in Paths |->                                \* lines 131-139
                   IF /\ p \in Glob(fs)
                      /\ p \notin failing
                      /\ JsonLoad(fs[p]).ok
                      /\ Expired(JsonLoad(fs[p]).data.timestamp, t)
                   THEN NoFile ELSE fs[p]]]

\* the history record of an operation, with the state it started from
Did(op, k, v, ret, failed) ==
    [op |-> op, key |-> k, value |-> v, ret |-> ret, at |-> now,
     failed |-> failed, memory |-> memory_cache, files |-> files]

\* __init__, lines 11-24, on an empty cache directory
CacheStart(ks, f) ==
    /\ ttl \in 1..MaxTTL
    /\ memory_cache = [k \in AllKeys |-> NoEntry]
    /\ files = [p \in Paths |-> NoFile]
    /\ keys = ks
    /\ faulty = f
    /\ written = [k \in AllKeys |-> NoEntry]
    /\ last = NoOp
    /\ CleanupIdle

CacheFrame ==
    /\ UNCHANGED <<ttl, keys, faulty>>
    /\ UNCHANGED cuVars
    /\ UNCHANGED colVars
    /\ UNCHANGED whVars
    /\ UNCHANGED rlVars
    /\ UNCHANGED rbVars
OtherFrame == UNCHANGED <<requests_per_second, request_count, window_start,
                          last_request_time, current_time, rl_wait_time,
                          rl_pc, calls>>

\* time passes between two cache operations
CacheTick ==
    /\ now < CacheMaxTime
    /\ now' = now + 1
    /\ UNCHANGED cVars
    /\ UNCHANGED colVars
    /\ UNCHANGED whVars
    /\ OtherFrame
    /\ UNCHANGED rbVars

\* get(key)
Get ==
    /\ \E k \in keys, rf \in Fails, uf \in Fails :
         LET o == GetOutcome(k, now, memory_cache, files, rf, uf)
         IN  /\ memory_cache' = o.memory
             /\ files' = o.files
             /\ last' = Did("get", k, "None", o.ret, o.failed)
    /\ UNCHANGED written
    /\ CacheFrame

Set ==
    /\ \E k \in keys, v \in Values, wf \in WriteFails :
         LET o == SetOutcome(k, v, now, memory_cache, files, wf)
         IN  /\ memory_cache' = o.memory
             /\ files' = o.files
             /\ written' = [written EXCEPT ![k] = Entry(now, v)]
             /\ last' = Did("set", k, v, "None", wf # "no")
    /\ CacheFrame

Clear ==
    /\ \E k \in keys, uf \in Fails :
         LET o == ClearOutcome(k, memory_cache, files, uf)
         IN  /\ memory_cache' = o.memory
             /\ files' = o.files
             /\ written' = [written EXCEPT ![k] = NoEntry]
             /\ last' = Did("clear", k, "None", "None", uf)
    /\ CacheFrame

ClearAll ==
    /\ \E failing \in FailSets(Glob(files)) :
         LET o == ClearAllOutcome(memory_cache, files, failing)
         IN  /\ memory_cache' = o.memory
             /\ files' = o.files
             /\ last' = Did("clear_all", "None", "None", "None", failing # {})
    /\ written' = [k \in AllKeys |-> NoEntry]
    /\ CacheFrame

CleanupExpired ==
    /\ \E failing \in FailSets(Glob(files)) :
         LET o == CleanupOutcome(now, memory_cache, files, failing)
         IN  /\ memory_cache' = o.memory
             /\ files' = o.files
             /\ last' = Did("cleanup", "None", "None", "None", failing # {})
    /\ UNCHANGED written
    /\ CacheFrame

\* a new CacheManager over the same cache_dir, lines 19-24
NewInstance ==
    /\ memory_cache' = [k \in AllKeys |-> NoEntry]
    /\ written' = [k \in AllKeys |-> NoEntry]
    /\ last' = Did("new", "None", "None", "None", FALSE)
    /\ UNCHANGED files
    /\ CacheFrame

CacheNext ==
    CacheTick \/ Get \/ Set \/ Clear \/ ClearAll \/ CleanupExpired \/ NewInstance

\* One CacheManager at a time over a cache directory of its own, keys that
\* name files of that directory, file operations that do not fail
CacheInit ==
    CacheStart(SafeKeys, FALSE) /\ RLUnused /\ RBUnused /\ CollectorUnused /\ WebhookStart
CacheSpec == CacheInit /\ [][CacheNext]_vars

\* the same with file operations that may fail
CacheFaultInit ==
    CacheStart({"k1"}, TRUE) /\ RLUnused /\ RBUnused /\ CollectorUnused /\ WebhookStart
CacheFaultSpec == CacheFaultInit /\ [][CacheNext]_vars

\* the same with any key string
CacheAnyKeyInit ==
    CacheStart({"k1", "../k3"}, FALSE) /\ RLUnused /\ RBUnused /\ CollectorUnused /\ WebhookStart
CacheAnyKeySpec == CacheAnyKeyInit /\ [][CacheNext]_vars

----------------------------------------------------------------------------
\* cleanup_expired step by step, beside another caller of the same CacheManager
\* whose get, set and clear take effect between two steps

CleanupFrame ==
    /\ UNCHANGED <<ttl, keys, faulty, written, last, now>>
    /\ UNCHANGED colVars
    /\ UNCHANGED whVars
    /\ OtherFrame
    /\ UNCHANGED rbVars

\* lines 120-126: current_time and the list of expired keys
CleanupScan ==
    /\ cu_pc = "idle"
    /\ cu_time' = now
    /\ expired_keys' = {k \in keys : /\ memory_cache[k].present
                                     /\ Expired(memory_cache[k].timestamp, now)}
    /\ cu_pc' = "evict"
    /\ UNCHANGED <<memory_cache, files, cu_files, cu_file>>
    /\ CleanupFrame

\* lines 127-128: del self.memory_cache[key], a KeyError when the key is gone
CleanupEvict ==
    /\ cu_pc = "evict"
    /\ \E k \in expired_keys :
         IF memory_cache[k].present
         THEN /\ memory_cache' = [memory_cache EXCEPT ![k] = NoEntry]
              /\ expired_keys' = expired_keys \ {k}
              /\ UNCHANGED cu_pc
         ELSE /\ cu_pc' = "raised"
              /\ UNCHANGED <<memory_cache, expired_keys>>
    /\ UNCHANGED <<files, cu_time, cu_files, cu_file>>
    /\ CleanupFrame

\* line 131: the files of the cache directory
CleanupGlob ==
    /\ cu_pc = "evict"
    /\ expired_keys = {}
    /\ cu_files' = Glob(files)
    /\ cu_pc' = "files"
    /\ UNCHANGED <<memory_cache, files, cu_time, expired_keys, cu_file>>
    /\ CleanupFrame

\* lines 132-134, 138-139: the next file is read; a file that is gone or is
\* not JSON raises inside the try and is skipped
CleanupRead ==
    /\ cu_pc = "files"
    /\ \E p \in cu_files :
         /\ cu_files' = cu_files \ {p}
         /\ IF JsonLoad(files[p]).ok
            THEN /\ cu_file' = [path |-> p, ok |-> TRUE,
                                data |-> JsonLoad(files[p]).data]
                 /\ cu_pc' = "read"
            ELSE UNCHANGED <<cu_file, cu_pc>>
    /\ UNCHANGED <<memory_cache, files, cu_time, expired_keys>>
    /\ CleanupFrame

\* lines 136-139: the file is unlinked when what was read of it is expired;
\* an unlink of a file that is gone raises inside the try
CleanupUnlink ==
    /\ cu_pc = "read"
    /\ files' = IF Expired(cu_file.data.timestamp, cu_time)
                THEN [files EXCEPT ![cu_file.path] = NoFile]
                ELSE files
    /\ cu_file' = NoRead
    /\ cu_pc' = "files"
    /\ UNCHANGED <<memory_cache, cu_time, expired_keys, cu_files>>
    /\ CleanupFrame

\* cleanup_expired returns
CleanupReturn ==
    /\ cu_pc = "files"
    /\ cu_files = {}
    /\ cu_pc' = "idle"
    /\ cu_time' = 0
    /\ UNCHANGED <<memory_cache, files, expired_keys, cu_files, cu_file>>
    /\ CleanupFrame

ConcurrentNext ==
    \/ CacheTick \/ Get \/ Set \/ Clear \/ ClearAll
    \/ CleanupScan \/ CleanupEvict \/ CleanupGlob
    \/ CleanupRead \/ CleanupUnlink \/ CleanupReturn

ConcurrentInit ==
    CacheStart({"k1"}, FALSE) /\ RLUnused /\ RBUnused /\ CollectorUnused /\ WebhookStart
ConcurrentSpec == ConcurrentInit /\ [][ConcurrentNext]_vars

----------------------------------------------------------------------------
\* WebhookManager: operations

\* mutant: a webhook without an events list is skipped like one that lacks the event
Skipped_Unset(w, event) == event \notin w.events.list

\* line 52: if webhook.events and event_type not in webhook.events: continue
Skipped(w, event) ==
    /\ w.events.given /\ w.events.list # {}
    /\ event \notin w.events.list

\* lines 61-62: the X-Webhook-Secret header, "None" when it is not sent
SecretHeader(w) == IF w.secret \notin {"None", ""} THEN w.secret ELSE "None"

\* lines 64-69: one requests.post and what became of it
Post(w, event, data, result) ==
    [url |-> w.url, event_type |-> event, data |-> data,
     secret |-> SecretHeader(w), result |-> result]

\* mutant: the loop ends with the first POST that fails
RECURSIVE NotifyPosts_StopOnError(_, _, _, _, _)
NotifyPosts_StopOnError(hooks, event, data, res, i) ==
    IF i > Len(hooks) THEN <<>>
    ELSE IF Skipped(hooks[i], event)
    THEN NotifyPosts_StopOnError(hooks, event, data, res, i + 1)
    ELSE IF res[i] # "ok"
    THEN <<Post(hooks[i], event, data, res[i])>>
    ELSE <<Post(hooks[i], event, data, res[i])>>
         \o NotifyPosts_StopOnError(hooks, event, data, res, i + 1)

\* lines 50-78: the POSTs of one notify, from webhook i on; res[i] is what
\* the POST to webhook i does
RECURSIVE NotifyPosts(_, _, _, _, _)
NotifyPosts(hooks, event, data, res, i) ==
    IF i > Len(hooks) THEN <<>>
    ELSE IF Skipped(hooks[i], event)
    THEN NotifyPosts(hooks, event, data, res, i + 1)
    ELSE <<Post(hooks[i], event, data, res[i])>>
         \o NotifyPosts(hooks, event, data, res, i + 1)

\* mutant: an exception of requests.post leaves notify
Escapes_Uncaught(posts) == \E i \in 1..Len(posts) : posts[i].result = "throws"

\* lines 55 and 77-78: every requests.post is inside try / except Exception
Escapes(posts) == FALSE

\* the record of a call of notify, lines 36-78
Notified(event, data, res) ==
    LET posts == NotifyPosts(webhooks, event, data, res, 1)
    IN  [called |-> TRUE, event |-> event, data |-> data,
         posts |-> posts, raised |-> Escapes(posts)]

WebhookFrame ==
    /\ UNCHANGED rlVars
    /\ UNCHANGED rbVars
    /\ UNCHANGED cVars
    /\ UNCHANGED colVars

\* add_webhook, lines 28-30
AddWebhook ==
    /\ Len(webhooks) < MaxWebhooks
    /\ \E config \in Configs : webhooks' = Append(webhooks, config)
    /\ notified' = NoNotify
    /\ WebhookFrame

\* remove_webhook, lines 32-34
RemoveWebhook ==
    /\ \E url \in Urls :
         LET Kept(w) == w.url # url
         IN  webhooks' = SelectSeq(webhooks, Kept)
    /\ notified' = NoNotify
    /\ WebhookFrame

\* notify, lines 36-78 (notify_game_end, notify_error: lines 84-94)
Notify ==
    /\ \E event \in EventTypes, data \in EventData,
          res \in [1..Len(webhooks) -> PostResults] :
         \* no POST is made to a skipped webhook: its entry of res is unused
         /\ \A i \in 1..Len(webhooks) :
              Skipped(webhooks[i], event) => res[i] = "ok"
         /\ notified' = Notified(event, data, res)
    /\ UNCHANGED webhooks
    /\ WebhookFrame

WebhookNext == AddWebhook \/ RemoveWebhook \/ Notify

WebhookInit ==
    WebhookStart /\ RLUnused /\ RBUnused /\ CacheUnused /\ CollectorUnused
WebhookSpec == WebhookInit /\ [][WebhookNext]_vars

----------------------------------------------------------------------------
\* RiotDataCollector: the cached lookups get_account_by_riot_id and
\* get_summoner_by_puuid, lines 47-92, over _make_request, lines 38-45

\* line 38: @retry_with_backoff(max_retries=3)
CollectorRetries == 3
\* line 35 with cache_manager.py line 11: ttl = 3600 seconds
CollectorTTL == 3600 * TicksPerSecond

\* what response.json() can be: a JSON object with members, or the empty one
Payloads == {"v1", "{}"}
\* what one requests.get with raise_for_status can do
Responses == [ok : {TRUE}, val : Payloads] \cup [ok : {FALSE}, val : {"e1"}]

\* mutant: only None counts as a miss
Truthy_NotNone(v) == v # "None"

\* lines 53 and 77: "if cached_data:", the truth value of what get returned
Truthy(v) == v \notin {"None", "{}"}

\* __init__, lines 33-36, with _make_request's decorator
CollectorStart ==
    /\ now = 0
    /\ requests_per_second \in 1..MaxBudget
    /\ request_count = 0
    /\ window_start = 0
    /\ last_request_time = 0
    /\ current_time = 0
    /\ rl_wait_time = 0
    /\ rl_pc = "idle"
    /\ calls = <<>>
    /\ max_retries = CollectorRetries
    /\ initial_wait = Second
    /\ attempt = 0
    /\ rb_wait_time = 0
    /\ rb_pc = "idle"
    /\ outcomes = <<>>
    /\ backoffs = <<>>
    /\ reached = Nothing
    /\ ttl = CollectorTTL
    /\ memory_cache = [k \in AllKeys |-> NoEntry]
    /\ files = [p \in Paths |-> NoFile]
    /\ keys = {"k1"}
    /\ faulty = FALSE
    /\ written = [k \in AllKeys |-> NoEntry]
    /\ last = NoOp
    /\ CleanupIdle
    /\ CollectorUnused
    /\ WebhookStart

\* the record of a lookup that ends now
Lookup(k, ret, raised, hit, gets, grants) ==
    [key |-> k, ret |-> ret, raised |-> raised, hit |-> hit,
     gets |-> gets - col_base.gets, grants |-> grants - col_base.grants,
     at |-> col_base.at, end |-> now]

CollectorFrame ==
    /\ UNCHANGED <<requests_per_second, max_retries, initial_wait, rb_pc,
                   outcomes, backoffs, reached>>
    /\ UNCHANGED <<ttl, keys, faulty>>
    /\ UNCHANGED cuVars
    /\ UNCHANGED webhooks

\* the caller does something else between two lookups
CollectorTick ==
    /\ col_pc = "idle"
    /\ now < MaxTime
    /\ now' = now + 1
    /\ UNCHANGED <<request_count, window_start, last_request_time,
                   current_time, rl_wait_time, rl_pc, calls>>
    /\ UNCHANGED <<attempt, rb_wait_time>>
    /\ UNCHANGED <<memory_cache, files, written, last>>
    /\ UNCHANGED colVars
    /\ UNCHANGED whVars
    /\ CollectorFrame

\* lines 49-54 / 73-78: the cache is asked first; a value that counts as true
\* is returned, anything else starts _make_request
CallLookup ==
    /\ col_pc = "idle"
    /\ Len(lookups) < MaxLookups
    /\ \E k \in keys :
         LET o == GetOutcome(k, now, memory_cache, files, FALSE, FALSE)
         IN  /\ memory_cache' = o.memory
             /\ files' = o.files
             /\ last' = Did("get", k, "None", o.ret, o.failed)
             /\ IF Truthy(o.ret)
                THEN /\ lookups' = Append(lookups,
                           [key |-> k, ret |-> o.ret, raised |-> FALSE,
                            hit |-> TRUE, gets |-> 0, grants |-> 0,
                            at |-> now, end |-> now])
                     /\ UNCHANGED <<col_pc, cache_key, col_base,
                                    attempt, rb_wait_time>>
                ELSE /\ col_pc' = "attempt"
                     /\ cache_key' = k
                     /\ col_base' = [gets |-> http_gets, grants |-> Len(calls),
                                     at |-> now]
                     /\ attempt' = 0                       \* api_utils.py:42-44
                     /\ rb_wait_time' = initial_wait
                     /\ UNCHANGED lookups
    /\ UNCHANGED <<now, request_count, window_start, last_request_time,
                   current_time, rl_wait_time, rl_pc, calls>>
    /\ UNCHANGED <<written, http_gets>>
    /\ UNCHANGED notified
    /\ CollectorFrame

\* line 41: self.rate_limiter.wait_if_needed(), up to its return or its sleep
Acquire ==
    /\ col_pc = "attempt"
    /\ rl_pc = "idle"
    /\ LET t  == now
           ws == IF WindowElapsed(t, window_start) THEN t ELSE window_start
           c  == IF WindowElapsed(t, window_start) THEN 0 ELSE request_count
           wt == WaitTime(t, ws)
       IN  /\ current_time' = t
           /\ window_start' = ws
           /\ IF BudgetExhausted(c) /\ wt > 0
              THEN /\ rl_wait_time' = wt
                   /\ rl_pc' = "sleeping"
                   /\ request_count' = c
                   /\ UNCHANGED <<last_request_time, calls, col_pc>>
              ELSE /\ rl_wait_time' = IF BudgetExhausted(c) THEN wt ELSE rl_wait_time
                   /\ request_count' = c + 1
                   /\ last_request_time' = t
                   /\ calls' = Append(calls,
                                 [start |-> t, ret |-> t, win |-> ws,
                                  count |-> c + 1, sleeps |-> 0, slept |-> 0])
                   /\ col_pc' = "get"
                   /\ UNCHANGED rl_pc
    /\ UNCHANGED <<now, attempt, rb_wait_time>>
    /\ UNCHANGED <<memory_cache, files, written, last>>
    /\ UNCHANGED <<cache_key, col_base, http_gets, lookups>>
    /\ UNCHANGED notified
    /\ CollectorFrame

\* the sleep of wait_if_needed returns and the call is granted
AcquireWake ==
    /\ col_pc = "attempt"
    /\ rl_pc = "sleeping"
    /\ \E over \in 0..MaxOversleep :
         /\ now' = now + rl_wait_time + over
         /\ window_start' = now'
         /\ request_count' = CountAfterSleep(request_count) + 1
         /\ last_request_time' = current_time
         /\ calls' = Append(calls,
                       [start |-> current_time, ret |-> now', win |-> now',
                        count |-> CountAfterSleep(request_count) + 1,
                        sleeps |-> 1, slept |-> rl_wait_time])
    /\ rl_pc' = "idle"
    /\ col_pc' = "get"
    /\ UNCHANGED <<current_time, rl_wait_time, attempt, rb_wait_time>>
    /\ UNCHANGED <<memory_cache, files, written, last>>
    /\ UNCHANGED <<cache_key, col_base, http_gets, lookups>>
    /\ UNCHANGED notified
    /\ CollectorFrame

\* lines 43-45 with the wrapper's lines 45-56 and the lookup's lines 59-69:
\* the GET; its payload is cached and returned, its error starts a backoff
\* or, on the last attempt, is reported and raised again.  The collector's
\* WebhookManager of line 36 is told of the error (lines 63-68).
HttpGet ==
    /\ col_pc = "get"
    /\ http_gets' = http_gets + 1
    /\ \E r \in Responses :
         IF r.ok
         THEN LET o == SetOutcome(cache_key, r.val, now, memory_cache, files, "no")
              IN  /\ memory_cache' = o.memory
                  /\ files' = o.files
                  /\ written' = [written EXCEPT ![cache_key] = Entry(now, r.val)]
                  /\ last' = Did("set", cache_key, r.val, "None", FALSE)
                  /\ lookups' = Append(lookups,
                        Lookup(cache_key, ReturnValue(r.val), FALSE, FALSE,
                               http_gets', Len(calls)))
                  /\ col_pc' = "idle"
                  /\ UNCHANGED notified
         ELSE /\ IF LastAttempt(attempt)
                 THEN /\ lookups' = Append(lookups,
                            Lookup(cache_key, Reraise(r.val, <<>>), TRUE, FALSE,
                                   http_gets', Len(calls)))
                      /\ col_pc' = "idle"
                      /\ \E res \in [1..Len(webhooks) -> PostResults] :
                           notified' = Notified("error", r.val, res)
                 ELSE /\ col_pc' = "backoff"
                      /\ UNCHANGED <<lookups, notified>>
              /\ UNCHANGED <<memory_cache, files, written, last>>
    /\ UNCHANGED <<now, request_count, window_start, last_request_time,
                   current_time, rl_wait_time, rl_pc, calls>>
    /\ UNCHANGED <<attempt, rb_wait_time, cache_key, col_base>>
    /\ CollectorFrame

\* mutant: the retry goes straight to the GET, past the rate limiter
CollectorBackoff_NoAcquire ==
    /\ col_pc = "backoff"
    /\ now' = now + rb_wait_time
    /\ rb_wait_time' = NextWait(rb_wait_time)
    /\ attempt' = attempt + 1
    /\ col_pc' = "get"
    /\ UNCHANGED <<request_count, window_start, last_request_time,
                   current_time, rl_wait_time, rl_pc, calls>>
    /\ UNCHANGED <<memory_cache, files, written, last>>
    /\ UNCHANGED <<cache_key, col_base, http_gets, lookups>>
    /\ UNCHANGED notified
    /\ CollectorFrame

\* api_utils.py:56-57: the wrapper sleeps, doubles its wait and tries again
CollectorBackoff ==
    /\ col_pc = "backoff"
    /\ now' = now + rb_wait_time
    /\ rb_wait_time' = NextWait(rb_wait_time)
    /\ attempt' = attempt + 1
    /\ col_pc' = "attempt"
    /\ UNCHANGED <<request_count, window_start, last_request_time,
                   current_time, rl_wait_time, rl_pc, calls>>
    /\ UNCHANGED <<memory_cache, files, written, last>>
    /\ UNCHANGED <<cache_key, col_base, http_gets, lookups>>
    /\ UNCHANGED notified
    /\ CollectorFrame

\* the collector's user registers a webhook for every event on
\* collector.webhook_manager (webhook_manager.py:28-30)
CollectorAddWebhook ==
    /\ col_pc = "idle"
    /\ webhooks = <<>>
    /\ webhooks' = <<[url |-> "u1", secret |-> "None",
                      events |-> [given |-> FALSE, list |-> {}]]>>
    /\ notified' = NoNotify
    /\ WebhookFrame

CollectorNext ==
    \/ CollectorTick \/ CallLookup \/ Acquire \/ AcquireWake
    \/ HttpGet \/ CollectorBackoff \/ CollectorAddWebhook

CollectorInit == CollectorStart
CollectorSpec == CollectorInit /\ [][CollectorNext]_vars

----------------------------------------------------------------------------
\* CacheManager: properties

\* what a tier held for the key of the last operation when it started
MemBefore == last.memory[last.key]
FileBefore == last.files[CacheFile(last.key)]
\* the tier held a record for that key no older than ttl
MemValidBefore == MemBefore.present /\ last.at - MemBefore.timestamp <= ttl
FileValidBefore == FileBefore.kind = "json" /\ last.at - FileBefore.timestamp <= ttl
\* what get(k) would return now
GetNow(k) == GetOutcome(k, now, memory_cache, files, FALSE, FALSE).ret

\* C11: get never returns an expired entry: a value returned by get(k) is the
\* value of a record of k no older than ttl that one of the tiers held, and
\* when neither tier holds such a record get(k) returns None
C11_ExpiredNeverReturned ==
    last.op = "get" =>
        /\ last.ret # "None" =>
             \/ MemValidBefore /\ MemBefore.value = last.ret
             \/ FileValidBefore /\ FileBefore.value = last.ret
        /\ ~MemValidBefore /\ ~FileValidBefore => last.ret = "None"

\* get(k) found records older than ttl in both tiers and returned None
C11_ExpiredWitness ==
    /\ last.op = "get"
    /\ MemBefore.present /\ last.at - MemBefore.timestamp > ttl
    /\ FileBefore.kind = "json" /\ last.at - FileBefore.timestamp > ttl
    /\ last.ret = "None"
    /\ ~memory_cache[last.key].present

\* C12: round trip and overwrite: a get(k) no later than ttl after the last
\* set(k, v), with no clear in between, returns v, and after a set(k, v) each
\* tier holds for k the record of v and nothing else
C12_RoundTripAndOverwrite ==
    /\ last.op = "get" /\ written[last.key].present
                       /\ last.at - written[last.key].timestamp <= ttl
         => last.ret = written[last.key].value
    /\ last.op = "set" =>
         /\ memory_cache[last.key] = Entry(last.at, last.value)
         /\ files[CacheFile(last.key)] =
                [kind |-> "json", timestamp |-> last.at, value |-> last.value]
         /\ now - last.at <= ttl => GetNow(last.key) = last.value

\* set(k, v2) replaced the record of another value in both tiers
C12_OverwriteWitness ==
    /\ last.op = "set"
    /\ MemBefore.present /\ MemBefore.value # last.value
    /\ FileBefore.kind = "json" /\ FileBefore.value # last.value
    /\ memory_cache[last.key].value = last.value
    /\ files[CacheFile(last.key)].value = last.value

\* C13: cleanup_expired is selective in both tiers: it removes the records
\* older than ttl and leaves every other record as it was
C13_CleanupSelective ==
    last.op = "cleanup" =>
        \A k \in keys :
            LET m == last.memory[k]
                f == last.files[CacheFile(k)]
            IN  /\ memory_cache[k] =
                     IF m.present /\ last.at - m.timestamp > ttl
                     THEN NoEntry ELSE m
                /\ files[CacheFile(k)] =
                     IF f.kind = "json" /\ last.at - f.timestamp > ttl
                     THEN NoFile ELSE f

\* C14: with a ttl of one second (two ticks), fresh_key set at t0 and stale_key
\* set half a second later, after cleanup_expired at t0 + 1.5 s fresh_key is
\* still returned, stale_key is not, and one file is left
C14_TestCleanupScenario ==
    (/\ ttl = 2
     /\ last.op = "cleanup"
     /\ last.memory["k1"].present /\ last.memory["k2"].present
     /\ last.memory["k2"].timestamp = last.memory["k1"].timestamp + 1
     /\ last.at = last.memory["k1"].timestamp + 3
     /\ last.files[CacheFile("k1")] = JsonDump(last.memory["k1"])
     /\ last.files[CacheFile("k2")] = JsonDump(last.memory["k2"])
     /\ now = last.at)
    => /\ GetNow("k1") = last.memory["k1"].value
       /\ GetNow("k2") = "None"
       /\ Cardinality(Glob(files)) = 1

C17_ClearAllEmptiesBothTiers ==
    last.op = "clear_all" /\ now = last.at =>
        \A k \in keys :
            /\ ~memory_cache[k].present
            /\ files[CacheFile(k)].kind = "absent"
            /\ GetNow(k) = "None"

\* C18: the durable record of set(k, v) is {timestamp, value}; an instance
\* whose memory tier has no record of k returns v from it within ttl and
\* holds the same record in memory afterwards
C18_PersistenceAndPromotion ==
    /\ last.op = "set" =>
         files[CacheFile(last.key)] =
             [kind |-> "json", timestamp |-> last.at, value |-> last.value]
    /\ last.op = "get" /\ ~MemBefore.present /\ FileValidBefore =>
         /\ last.ret = FileBefore.value
         /\ memory_cache[last.key] = Entry(FileBefore.timestamp, FileBefore.value)
         /\ files = last.files

\* a get some time after the set, on an instance with an empty memory
\* tier, promoted the record with the time of the set
C18_PromotionWitness ==
    /\ last.op = "get"
    /\ ~MemBefore.present
    /\ last.ret \in Values
    /\ memory_cache[last.key].present
    /\ memory_cache[last.key].timestamp < last.at

\* C19: failures of the durable tier do not surface: a set whose write fails
\* still stores v in memory and a get that follows returns v; a get whose
\* read or delete fails returns None
C19_DurableFailuresSwallowed ==
    /\ last.op = "set" /\ last.failed =>
         /\ memory_cache[last.key] = Entry(last.at, last.value)
         /\ \A rf \in Fails, uf \in Fails :
              (now - last.at <= ttl) =>
                  GetOutcome(last.key, now, memory_cache, files, rf, uf).ret
                      = last.value
    /\ last.op = "get" /\ written[last.key].present
                       /\ last.at - written[last.key].timestamp <= ttl
         => last.ret = written[last.key].value
    /\ last.op = "get" /\ last.failed => last.ret = "None"

\* a get returned the value of a set whose file was never written
C19_FailedWriteWitness ==
    /\ last.op = "get"
    /\ last.ret \in Values
    /\ FileBefore.kind # "json"
    /\ written[last.key].present

\* C15: cleanup_expired beside get, set and clear of another caller never
\* raises: a memory entry the other caller removed between the scan and the
\* eviction is passed over, as a file that is gone is
C15_CleanupNeverRaises ==
    cu_pc # "raised"

----------------------------------------------------------------------------
\* RiotDataCollector: properties

\* C20: a cache hit bypasses the network, for every payload: when a lookup
\* got its payload from the API with its first GET and the next lookup of
\* the same key starts within ttl of it, the first made one grant and one
\* GET and the second made none and returns the same payload
C20_CacheHitBypassesNetwork ==
    \A i \in 1..Len(lookups), j \in 1..Len(lookups) :
        (/\ j = i + 1
         /\ lookups[i].key = lookups[j].key
         /\ ~lookups[i].hit /\ ~lookups[i].raised /\ lookups[i].gets = 1
         /\ lookups[j].at - lookups[i].end <= ttl)
        => /\ lookups[i].grants = 1
           /\ lookups[j].hit
           /\ lookups[j].gets = 0
           /\ lookups[j].grants = 0
           /\ lookups[j].ret = lookups[i].ret

----------------------------------------------------------------------------
\* RateLimiter: fixed-window bursts

\* C25: wait_if_needed suspends only when, after the reset check, the window
\* is less than a second old and request_count has reached the budget; a
\* call that did not suspend returns at once, and every call that is not the
\* first grant of its window is such a call; a call that suspended starts
\* the window at its wake-up time and is that window's first grant
C25_FixedWindowBurst ==
    /\ rl_pc = "sleeping" =>
         /\ request_count >= requests_per_second
         /\ current_time - window_start < Second
         /\ rl_wait_time > 0
    /\ \A i \in 1..Len(calls) :
         /\ calls[i].sleeps = 0 => calls[i].ret = calls[i].start
         /\ calls[i].count > 1 => calls[i].sleeps = 0
         /\ calls[i].sleeps = 1 =>
              /\ calls[i].win = calls[i].ret
              /\ calls[i].count = 1
              /\ i > 1
              /\ calls[i - 1].count = requests_per_second
              /\ calls[i].start - calls[i - 1].win < Second

\* a call suspended, and after it the rest of the budget was granted at once
C25_BurstAfterSleepWitness ==
    \E i \in 1..Len(calls) :
        /\ calls[i].sleeps = 1
        /\ requests_per_second > 1
        /\ i + requests_per_second - 1 <= Len(calls)
        /\ \A j \in (i + 1)..(i + requests_per_second - 1) :
             /\ calls[j].win = calls[i].win
             /\ calls[j].sleeps = 0

----------------------------------------------------------------------------
\* retry_with_backoff: the end of the loop

\* C30: with max_retries >= 1 the loop is never left at its end: the
\* operation is invoked at least once, and the call ends by returning the
\* result of its last invocation or by raising the error of its last
\* invocation, never with the None of the line after the loop
C30_ReturnNoneUnreachable ==
    max_retries >= 1 =>
        /\ rb_pc = "loop" => attempt < max_retries
        /\ Finished =>
             /\ Invocations >= 1
             /\ reached.kind = IF outcomes[Invocations].ok THEN "return" ELSE "raise"
             /\ reached.val = outcomes[Invocations].val
             /\ reached.val # "None"

\* max_retries = 1: the single invocation failed and its error was raised
C30_SingleAttemptWitness ==
    /\ max_retries = 1
    /\ rb_pc = "raised"
    /\ Invocations = 1
    /\ reached = [kind |-> "raise", val |-> outcomes[1].val]

----------------------------------------------------------------------------
\* CacheManager: eviction, tier consistency, lifetime

\* C26: a get that finds the entry of its key older than ttl removes it:
\* an expired memory entry is gone after the get whatever happens to the
\* file, and when the get returns None without a failed file operation the
\* key has no entry in memory and no file
C26_ExpiredEvictedOnGet ==
    last.op = "get" =>
        /\ MemBefore.present /\ last.at - MemBefore.timestamp > ttl =>
             /\ memory_cache[last.key] # MemBefore
             /\ memory_cache[last.key].present =>
                  last.at - memory_cache[last.key].timestamp <= ttl
        /\ (/\ last.ret = "None"
            /\ ~last.failed
            /\ \/ MemBefore.present /\ last.at - MemBefore.timestamp > ttl
               \/ FileBefore.kind = "json" /\ last.at - FileBefore.timestamp > ttl)
           => /\ ~memory_cache[last.key].present
              /\ files[CacheFile(last.key)].kind = "absent"

\* a get on an instance without a memory entry removed the expired file
C26_ExpiredFileWitness ==
    /\ last.op = "get"
    /\ ~MemBefore.present
    /\ FileBefore.kind = "json" /\ last.at - FileBefore.timestamp > ttl
    /\ last.ret = "None" /\ ~last.failed
    /\ files[CacheFile(last.key)].kind = "absent"

C28_ReadsKeepTimestamps ==
    last.op = "get" =>
        /\ memory_cache[last.key].present =>
             \/ MemBefore.present
                /\ memory_cache[last.key] = MemBefore
             \/ FileBefore.kind = "json"
                /\ memory_cache[last.key] =
                       Entry(FileBefore.timestamp, FileBefore.value)
        /\ files[CacheFile(last.key)] \in {FileBefore, NoFile}
        /\ written[last.key].present
           /\ last.at - written[last.key].timestamp > ttl
             => last.ret = "None"

\* a get some time after the set was answered from memory and left the
\* entry's timestamp as the set wrote it
C28_MemoryHitWitness ==
    /\ last.op = "get"
    /\ last.ret \in Values
    /\ MemBefore.present
    /\ MemBefore.timestamp < last.at
    /\ memory_cache[last.key] = written[last.key]

----------------------------------------------------------------------------
\* RiotDataCollector: rate limiting, timing

\* C29: rate limiting is per attempt: a GET is issued only right after a
\* grant of its own, so the grants are never fewer than the GETs, one ahead
\* exactly while a GET is about to be made, and every finished lookup made
\* as many grants as GETs, its retries included
C29_GrantPerAttempt ==
    /\ http_gets <= Len(calls)
    /\ col_pc = "get" => Len(calls) = http_gets + 1
    /\ col_pc # "get" => Len(calls) = http_gets
    /\ \A i \in 1..Len(lookups) : lookups[i].grants = lookups[i].gets

\* a lookup failed twice and got its payload with the third GET, after
\* three grants
C29_RetriedLookupWitness ==
    \E i \in 1..Len(lookups) :
        /\ ~lookups[i].raised
        /\ lookups[i].gets = 3
        /\ lookups[i].grants = 3

\* C21: more lookups of one key than the budget, each answered by the cache
\* or by a GET that succeeds at once, take at least one second from the
\* start of the first to the end of the last
C21_MoreCallsThanBudgetTakeASecond ==
    (/\ Len(lookups) > requests_per_second
     /\ \A i \in 1..Len(lookups) :
          /\ lookups[i].key = lookups[1].key
          /\ ~lookups[i].raised
          /\ lookups[i].gets = IF lookups[i].hit THEN 0 ELSE 1)
    => lookups[Len(lookups)].end - lookups[1].at >= Second

\* C22: when every attempt of a lookup fails on a collector whose webhooks
\* are as the constructor left them, the error is raised to the caller,
\* the cache is not written, and one POST with an error event has been sent
C22_ExhaustedRetriesNotified ==
    (/\ col_pc = "idle"
     /\ Len(lookups) >= 1
     /\ lookups[Len(lookups)].raised
     /\ webhooks = <<>>)
    => /\ lookups[Len(lookups)].gets = CollectorRetries
       /\ lookups[Len(lookups)].ret \in {"e1"}
       /\ last.op = "get"
       /\ notified.called
       /\ Len(notified.posts) = 1
       /\ notified.posts[1].event_type = "error"

----------------------------------------------------------------------------
\* WebhookManager: properties

\* the webhooks notify does not pass over for the event of the last call:
\* those without an events list, with an empty one, or with one that
\* contains the event
Subscribed(w) ==
    \/ ~w.events.given
    \/ w.events.list = {}
    \/ notified.event \in w.events.list
Receivers == SelectSeq(webhooks, Subscribed)

\* C23: notify sends one POST to each webhook whose events list is unset or
\* contains the event, in registration order, and none to a webhook whose
\* non-empty list lacks it; each POST carries the event type, the data, and
\* the secret header exactly when the webhook has a secret
C23_EventFiltering ==
    notified.called =>
        /\ Len(notified.posts) = Len(Receivers)
        /\ \A i \in 1..Len(Receivers) :
             /\ notified.posts[i].url = Receivers[i].url
             /\ notified.posts[i].event_type = notified.event
             /\ notified.posts[i].data = notified.data
             /\ notified.posts[i].secret =
                    IF Receivers[i].secret \in {"None", ""}
                    THEN "None" ELSE Receivers[i].secret

\* of two webhooks the first lacks the event and the second, with a
\* secret, got the only POST
C23_FilteredWitness ==
    /\ notified.called
    /\ Len(webhooks) = 2
    /\ webhooks[1].events.given
    /\ webhooks[1].events.list # {}
    /\ notified.event \notin webhooks[1].events.list
    /\ Len(notified.posts) = 1
    /\ notified.posts[1].url = webhooks[2].url
    /\ notified.posts[1].secret = "s1"

\* C24: failures of a delivery stay with it: notify does not raise, and
\* whatever the POSTs answer, each subscribed webhook has had one POST, a
\* failed one no second, and the webhooks after a failed one theirs
C24_FailuresIsolated ==
    notified.called =>
        /\ ~notified.raised
        /\ Len(notified.posts) = Len(Receivers)
        /\ \A i \in 1..Len(notified.posts) :
             notified.posts[i].result # "ok" =>
                 \A j \in (i + 1)..Len(Receivers) :
                     notified.posts[j].url = Receivers[j].url

\* the POST to the first webhook threw, the one to the second was made
C24_AfterFailureWitness ==
    /\ notified.called
    /\ Len(notified.posts) = 2
    /\ notified.posts[1].result = "throws"
    /\ notified.posts[2].result = "ok"
    /\ notified.posts[2].url # notified.posts[1].url

====
